---- MODULE Spec2Model ----
(***************************************************************************)
(* Document management backend (Convex functions in convex/documents.ts    *)
(* and convex/ai.ts) and the upload form that calls it.                    *)
(*                                                                         *)
(* Every Convex query and mutation is one transaction: it is modelled as   *)
(* one atomic step, and a mutation that throws leaves the database and the *)
(* file storage untouched.  Actions (processDocument, analyzeDocument,     *)
(* chatWithDocument, compareDocuments) are not transactions: every         *)
(* runQuery / runMutation they issue is a step of its own and other        *)
(* functions may run in between.                                           *)
(***************************************************************************)
EXTENDS Integers, Sequences, FiniteSets, TLC

\* ---------------------------------------------------------------- bounds
MaxDocs == 2          \* documents ever inserted
MaxBlobs == 2         \* blobs ever uploaded to file storage
MaxInvocations == 2   \* processDocument invocations ever started
MaxRows == 52         \* documents of a table that the list and search queries read
MaxFound == 22        \* of these, the oldest ones, which have content and the name "report"
MaxShown == 3         \* documents of the user whose panels are shown
MaxQuestions == 2     \* questions ever sent from the chat panel
MaxComparisons == 2   \* comparisons ever started from the comparison panel

\* ------------------------------------------------------------- constants
MaxFileSize == 10485760      \* 10 * 1024 * 1024
Confidence == 85             \* 0.85, in hundredths
SearchLimit == 20
DefaultPageSize == 50

Users == {"u1", "u2"}
NoUser == "null"             \* getAuthUserId(ctx) returned null
Callers == Users \cup {NoUser}

FileTypes == {"pdf", "docx", "txt"}
SupportedTypes == {"pdf", "docx"}
SmallFile == 2097152           \* 2 MiB
FileSizes == {SmallFile, MaxFileSize + 1}
FileNames == {"report"}

PdfMime == "application/pdf"
DocxMime == "application/vnd.openxmlformats-officedocument.wordprocessingml.document"
MimeTypes == {PdfMime, DocxMime, "text/plain"}
allowedTypes == {PdfMime, DocxMime}

AuthError == "Authentication required"
DocError == "Document not found or access denied"
DocsError == "Documents not found or access denied"
ProcessingFailed == "Processing failed"
PdfContent == "PDF content extracted (placeholder - implement PDF parser)"
DocxContent == "DOCX content extracted (placeholder - implement DOCX parser)"

AnalysisTypes == <<"summary", "classification", "keywords", "insights">>

\* optional fields of a table row: absent, or present with a value
None == <<>>
Some(x) == <<x>>

\* ----------------------------------------------------------------- state
VARIABLES
  docs,          \* table "documents": _id -> row
  nextDocId,     \* ids are never reused
  storage,       \* file storage: ids of the blobs that exist
  nextStorageId,
  analysis,      \* table "documentAnalysis": set of rows
  scheduled,     \* scheduler: document ids with a processDocument job pending
  procs,         \* processDocument invocations: number -> local state
  lastCall,      \* the last call of a public function and what it returned
  compare,       \* the compareDocuments call in flight, if any
  DocumentChat,        \* state and props of the chat panel
  DocumentComparison   \* state and props of the comparison panel

vars == <<docs, nextDocId, storage, nextStorageId, analysis, scheduled, procs,
          lastCall, compare, DocumentChat, DocumentComparison>>
components == <<DocumentChat, DocumentComparison>>
client == <<lastCall, compare, components>>
db == <<docs, nextDocId, storage, nextStorageId, analysis, scheduled>>

\* ----------------------------------------------------- database helpers
Insert(table, id, row) == (id :> row) @@ table
Delete(table, id) == [d \in DOMAIN table \ {id} |-> table[d]]
Patch(table, id, fields) ==
  [table EXCEPT ![id] = [f \in DOMAIN table[id] |->
                           IF f \in DOMAIN fields THEN fields[f] ELSE table[id][f]]]
Exists(table, id) == id \in DOMAIN table

Ok(result) == [ok |-> TRUE, result |-> result]
Err(message) == [ok |-> FALSE, result |-> message]

\* what the caller of a public function observes: r is Ok(value) or Err(message)
NoCall == [op |-> "none", caller |-> NoUser, args |-> <<>>, ok |-> TRUE, result |-> <<>>]
NoCompare == <<>>
Returns(op, caller, args, r) ==
  lastCall' = [op |-> op, caller |-> caller, args |-> args, ok |-> r.ok, result |-> r.result]

\* the panels as they are mounted: the useState defaults, nothing selected
\* and no call in flight (calls: the calls of the action that have not
\* returned; asked: the number of questions sent so far)
NewDocumentChat ==
  [messages |-> <<>>, inputMessage |-> <<>>, isLoading |-> FALSE,
   selectedDocumentId |-> None, calls |-> {}, asked |-> 0]
NewDocumentComparison ==
  [compareDocuments |-> [doc1 |-> None, doc2 |-> None], comparisonResult |-> None,
   isComparing |-> FALSE, calls |-> {}, compared |-> 0]

Init ==
  /\ docs = <<>>
  /\ nextDocId = 1
  /\ storage = {}
  /\ nextStorageId = 1
  /\ analysis = {}
  /\ scheduled = {}
  /\ procs = <<>>
  /\ lastCall = NoCall
  /\ compare = NoCompare
  /\ DocumentChat = NewDocumentChat
  /\ DocumentComparison = NewDocumentComparison

\* ------------------------------------------------ convex/documents.ts
\* ctx.storage.getUrl: null when the blob does not exist
getUrl(blobs, storageId) == IF storageId \in blobs THEN Some(storageId) ELSE None

\* generateUploadUrl takes no argument; fileSize is the size of the file the
\* client is about to upload, which the function never sees.
generateUploadUrlHandler(caller) ==
  IF caller = NoUser THEN Err(AuthError) ELSE Ok("uploadUrl")

generateUploadUrl(caller) == UNCHANGED <<db, procs>>

\* POST of the file to an upload URL: the storage service stores the blob
\* under a fresh id.
StoreBlob ==
  /\ nextStorageId <= MaxBlobs
  /\ storage' = storage \cup {nextStorageId}
  /\ nextStorageId' = nextStorageId + 1

\* uploadTime: Date.now() at insertion, which grows with the row id
NewDocument(userId, args, id) ==
  [userId |-> userId, fileName |-> args.fileName, fileType |-> args.fileType,
   fileSize |-> args.fileSize, storageId |-> args.storageId,
   parsedContent |-> "", uploadTime |-> id, isProcessed |-> FALSE,
   summary |-> None, classification |-> None, keywords |-> None]

saveDocumentEffectUnscheduled(userId, args) ==
  /\ docs' = Insert(docs, nextDocId, NewDocument(userId, args, nextDocId))
  /\ nextDocId' = nextDocId + 1
  /\ scheduled' = scheduled

\* the effect of the saveDocument mutation on the database
saveDocumentEffect(userId, args) ==
  /\ docs' = Insert(docs, nextDocId, NewDocument(userId, args, nextDocId))
  /\ nextDocId' = nextDocId + 1
  /\ scheduled' = scheduled \cup {nextDocId}

saveDocumentHandler(caller) ==
  IF caller = NoUser THEN Err(AuthError) ELSE Ok(nextDocId)

saveDocument(caller, args) ==
  /\ nextDocId <= MaxDocs
  /\ IF saveDocumentHandler(caller).ok
       THEN saveDocumentEffect(caller, args)
       ELSE UNCHANGED <<docs, nextDocId, scheduled>>
  /\ UNCHANGED <<storage, nextStorageId, analysis, procs>>

getDocumentHandlerLeaky(table, blobs, caller, documentId) ==
  IF caller = NoUser THEN Err(AuthError)
  ELSE IF ~Exists(table, documentId) THEN Err("Document not found")
  ELSE IF table[documentId].userId # caller THEN Err("Access denied")
  ELSE Ok([doc |-> table[documentId],
           downloadUrl |-> getUrl(blobs, table[documentId].storageId)])

getDocumentHandler(table, blobs, caller, documentId) ==
  IF caller = NoUser THEN Err(AuthError)
  ELSE IF ~Exists(table, documentId) \/ table[documentId].userId # caller
    THEN Err(DocError)
    ELSE Ok([doc |-> table[documentId],
             downloadUrl |-> getUrl(blobs, table[documentId].storageId)])

getDocument(caller, documentId) == UNCHANGED <<db, procs>>

\* a row as the list queries return it: the document and its download URL
WithUrl(table, blobs, d) ==
  [id |-> d, doc |-> table[d], downloadUrl |-> getUrl(blobs, table[d].storageId)]

\* index by_user_and_upload_time read with order("desc"): the ids by upload
\* time, latest first, rows of equal upload time by id
RECURSIVE Descending(_, _)
Descending(table, ids) ==
  IF ids = {} THEN <<>>
  ELSE LET latest == CHOOSE d \in ids : \A e \in ids :
                       \/ table[e].uploadTime < table[d].uploadTime
                       \/ table[e].uploadTime = table[d].uploadTime /\ e <= d
       IN <<latest>> \o Descending(table, ids \ {latest})

\* .take(n) of a sequence
Take(rows, n) == SubSeq(rows, 1, IF n < Len(rows) THEN n ELSE Len(rows))

\* args.limit || 50: a limit that is absent or 0 is falsy
PageSize(limit) == IF limit = None \/ limit[1] = 0 THEN DefaultPageSize ELSE limit[1]

getUserDocumentsHandlerAnonymous(table, blobs, caller, limit) ==
  LET ids == Take(Descending(table, {d \in DOMAIN table : table[d].userId = caller}),
                  PageSize(limit))
  IN Ok([i \in 1..Len(ids) |-> WithUrl(table, blobs, ids[i])])

getUserDocumentsHandler(table, blobs, caller, limit) ==
  IF caller = NoUser THEN Err(AuthError)
  ELSE LET ids == Take(Descending(table, {d \in DOMAIN table : table[d].userId = caller}),
                       PageSize(limit))
       IN Ok([i \in 1..Len(ids) |-> WithUrl(table, blobs, ids[i])])

getUserDocuments(caller, limit) == UNCHANGED <<db, procs>>

\* The search index splits a text into lower-case words; these are the
\* words of the texts a document of the model can hold.
Words(text) ==
  CASE text = "report" -> {"report"}
    [] text = "notes" -> {"notes"}
    [] text = PdfContent ->
         {"pdf", "content", "extracted", "placeholder", "implement", "parser"}
    [] text = DocxContent ->
         {"docx", "content", "extracted", "placeholder", "implement", "parser"}
    [] text = ProcessingFailed -> {"processing", "failed"}
    [] OTHER -> {}

\* q.search(searchField, query) for a query of one word
Matches(text, query) == query \in Words(text)

\* the sets left when k elements of ids are dropped
RECURSIVE Dropping(_, _)
Dropping(ids, k) ==
  IF k = 0 THEN {ids} ELSE UNION {Dropping(ids \ {d}, k - 1) : d \in ids}

\* .take(n) of a search: the n matches the index ranks first; the ranking
\* is the index's relevance order, so any n of the matches may be the ones
TakeRanked(ids, n) ==
  IF Cardinality(ids) <= n THEN {ids} ELSE Dropping(ids, Cardinality(ids) - n)

searchDocumentsResultsAllUsers(table, blobs, caller, args) ==
  IF caller = NoUser THEN {Err(AuthError)}
  ELSE LET searchField == IF args.searchType = "content" THEN "parsedContent"
                                                         ELSE "fileName"
           found == {d \in DOMAIN table : Matches(table[d][searchField], args.query)}
           filtered == IF args.fileType = None \/ args.fileType = Some("")
                         THEN found
                         ELSE {d \in found : Some(table[d].fileType) = args.fileType}
       IN {Ok({WithUrl(table, blobs, d) : d \in ids}) :
             ids \in TakeRanked(filtered, SearchLimit)}

\* searchDocuments: every result the query may return.  A fileType argument
\* that is absent or the empty string is falsy and adds no filter.
searchDocumentsResults(table, blobs, caller, args) ==
  IF caller = NoUser THEN {Err(AuthError)}
  ELSE LET searchField == IF args.searchType = "content" THEN "parsedContent"
                                                         ELSE "fileName"
           found == {d \in DOMAIN table :
                       /\ Matches(table[d][searchField], args.query)
                       /\ table[d].userId = caller}
           filtered == IF args.fileType = None \/ args.fileType = Some("")
                         THEN found
                         ELSE {d \in found : Some(table[d].fileType) = args.fileType}
       IN {Ok({WithUrl(table, blobs, d) : d \in ids}) :
             ids \in TakeRanked(filtered, SearchLimit)}

searchDocuments(caller, args) == UNCHANGED <<db, procs>>

\* getDocumentAnalysis: the rows of index by_document whose userId is the
\* caller's
getDocumentAnalysisHandler(rows, caller, documentId) ==
  IF caller = NoUser THEN Err(AuthError)
  ELSE Ok({a \in rows : a.documentId = documentId /\ a.userId = caller})

getDocumentAnalysis(caller, documentId) == UNCHANGED <<db, procs>>

deleteStepsNoCascade(documentId, steps) ==
  /\ storage' = IF steps >= 1 THEN storage \ {docs[documentId].storageId} ELSE storage
  /\ docs' = IF steps >= 2 THEN Delete(docs, documentId) ELSE docs
  /\ analysis' = analysis

\* The three deletions of deleteDocument, the first `steps` of them done:
\* storage.delete, db.delete of the document, db.delete of its analysis rows.
deleteSteps(documentId, steps) ==
  /\ storage' = IF steps >= 1 THEN storage \ {docs[documentId].storageId} ELSE storage
  /\ docs' = IF steps >= 2 THEN Delete(docs, documentId) ELSE docs
  /\ analysis' = IF steps >= 3
                   THEN {a \in analysis : a.documentId # documentId}
                   ELSE analysis

deleteDocumentEffectNoRollback(documentId, failAt) ==
  IF failAt = 0 THEN deleteSteps(documentId, 3) ELSE deleteSteps(documentId, failAt - 1)

\* A mutation is a transaction: when one of its steps throws, nothing of it
\* is committed.
deleteDocumentEffect(documentId, failAt) ==
  IF failAt = 0 THEN deleteSteps(documentId, 3) ELSE deleteSteps(documentId, 0)

\* failAt = 0: no deletion step throws; 1..3: that step throws.
deleteDocumentHandler(table, caller, documentId, failAt) ==
  IF caller = NoUser THEN Err(AuthError)
  ELSE IF ~Exists(table, documentId) \/ table[documentId].userId # caller
    THEN Err(DocError)
    ELSE IF failAt # 0 THEN Err("Server Error") ELSE Ok("success")

deleteDocument(caller, documentId, failAt) ==
  /\ IF caller # NoUser /\ Exists(docs, documentId) /\ docs[documentId].userId = caller
       THEN deleteDocumentEffect(documentId, failAt)
       ELSE UNCHANGED <<docs, storage, analysis>>
  /\ UNCHANGED <<nextDocId, nextStorageId, scheduled, procs>>

\* ------------------------------------------------------ convex/ai.ts
\* A string that the code splits is modelled as the sequence of its words
\* and of its other characters, one element each; a string that is only
\* stored and compared is a sequence of one element.
Str(s) == <<s>>

KeywordsResponse ==
  <<"business", ",", " ", "strategy", ",", " ", "implementation", ",", " ",
    "process", ",", " ", "guidelines", ",", " ", "management", ",", " ",
    "operations", ",", " ", "efficiency">>

generateMockResponse(analysisType, content) ==
  CASE analysisType = "summary" ->
         Str("This document contains important information about business processes and procedures. It outlines key strategies and implementation guidelines.")
    [] analysisType = "classification" -> Str("Business")
    [] analysisType = "keywords" -> KeywordsResponse
    [] analysisType = "insights" ->
         Str("Key insights: 1) Focus on operational efficiency, 2) Strategic planning is emphasized, 3) Implementation requires cross-team collaboration")
    [] analysisType = "question_answer" ->
         Str("Based on the document content, here is the answer to your question...")
    [] analysisType = "comparison" ->
         Str("Both documents share similar themes but differ in their approach to implementation. Document 1 focuses more on strategy while Document 2 emphasizes execution.")
    [] OTHER -> Str("Analysis completed successfully.")

analyzeWithAI(content, analysisType) ==
  [result |-> generateMockResponse(analysisType, content), confidence |-> Confidence]

\* String.prototype.split(",")
RECURSIVE SplitFrom(_, _, _)
SplitFrom(s, i, cur) ==
  IF i > Len(s) THEN <<cur>>
  ELSE IF s[i] = "," THEN <<cur>> \o SplitFrom(s, i + 1, <<>>)
  ELSE SplitFrom(s, i + 1, Append(cur, s[i]))
split(s) == SplitFrom(s, 1, <<>>)

\* String.prototype.trim()
RECURSIVE trimStart(_)
trimStart(s) == IF s # <<>> /\ Head(s) = " " THEN trimStart(Tail(s)) ELSE s
RECURSIVE trimEnd(_)
trimEnd(s) ==
  IF s # <<>> /\ s[Len(s)] = " " THEN trimEnd(SubSeq(s, 1, Len(s) - 1)) ELSE s
trim(s) == trimEnd(trimStart(s))

keywordsOfUntrimmed(result) == split(result)

\* analyses[2].result.split(",").map(k => k.trim())
keywordsOf(result) == [i \in 1..Len(split(result)) |-> trim(split(result)[i])]

chatWithDocumentHandlerProcessedOnly(table, caller, documentId, question) ==
  IF caller = NoUser THEN Err(AuthError)
  ELSE IF ~Exists(table, documentId) \/ table[documentId].userId # caller
    THEN Err(DocError)
    ELSE IF ~table[documentId].isProcessed THEN Err("Document not processed")
    ELSE LET response == analyzeWithAI(<<table[documentId].parsedContent, question>>,
                                       "question_answer")
         IN Ok([answer |-> response.result, confidence |-> response.confidence])

chatWithDocumentHandler(table, caller, documentId, question) ==
  IF caller = NoUser THEN Err(AuthError)
  ELSE IF ~Exists(table, documentId) \/ table[documentId].userId # caller
    THEN Err(DocError)
    ELSE LET response == analyzeWithAI(<<table[documentId].parsedContent, question>>,
                                       "question_answer")
         IN Ok([answer |-> response.result, confidence |-> response.confidence])

chatWithDocument(caller, documentId, question) == UNCHANGED <<db, procs>>

\* getDocumentForProcessing: the row, or null
getDocumentForProcessing(table, documentId) ==
  IF Exists(table, documentId) THEN Some(table[documentId]) ELSE None

compareDocumentsHandlerFirstOwnerOnly(caller, id1, id2, doc1, doc2) ==
  IF caller = NoUser THEN Err(AuthError)
  ELSE IF doc1 = None \/ doc2 = None \/ doc1[1].userId # caller
    THEN Err(DocsError)
    ELSE LET comparison ==
               analyzeWithAI(<<doc1[1].fileName, doc1[1].parsedContent,
                               doc2[1].fileName, doc2[1].parsedContent>>, "comparison")
         IN Ok([comparison |-> comparison.result, confidence |-> comparison.confidence,
                document1 |-> [id |-> id1, name |-> doc1[1].fileName],
                document2 |-> [id |-> id2, name |-> doc2[1].fileName]])

\* doc1, doc2: what the two queries returned
compareDocumentsHandler(caller, id1, id2, doc1, doc2) ==
  IF caller = NoUser THEN Err(AuthError)
  ELSE IF doc1 = None \/ doc2 = None
          \/ doc1[1].userId # caller \/ doc2[1].userId # caller
    THEN Err(DocsError)
    ELSE LET comparison ==
               analyzeWithAI(<<doc1[1].fileName, doc1[1].parsedContent,
                               doc2[1].fileName, doc2[1].parsedContent>>, "comparison")
         IN Ok([comparison |-> comparison.result, confidence |-> comparison.confidence,
                document1 |-> [id |-> id1, name |-> doc1[1].fileName],
                document2 |-> [id |-> id2, name |-> doc2[1].fileName]])

\* compareDocuments is an action: its two queries are two transactions, run
\* in either order (first = 1 or 2), and mutations may commit between them.
compareDocumentsStart(caller, id1, id2, first) ==
  /\ compare = NoCompare
  /\ IF caller = NoUser
       THEN /\ Returns("compareDocuments", caller, <<id1, id2>>,
                       compareDocumentsHandler(caller, id1, id2, None, None))
            /\ UNCHANGED compare
       ELSE /\ compare' = [caller |-> caller, ids |-> <<id1, id2>>, first |-> first,
                           doc |-> getDocumentForProcessing(docs, <<id1, id2>>[first])]
            /\ lastCall' = NoCall
  /\ UNCHANGED <<db, procs, components>>

compareDocumentsFinish ==
  /\ compare # NoCompare
  /\ LET other == getDocumentForProcessing(docs, compare.ids[3 - compare.first])
         doc1 == IF compare.first = 1 THEN compare.doc ELSE other
         doc2 == IF compare.first = 1 THEN other ELSE compare.doc
     IN Returns("compareDocuments", compare.caller, compare.ids,
                compareDocumentsHandler(compare.caller, compare.ids[1], compare.ids[2],
                                        doc1, doc2))
  /\ compare' = NoCompare
  /\ UNCHANGED <<db, procs, components>>

\* --------------------------------------- convex/documents.ts, pipeline
FetchFailed == "Failed to parse document: fetch failed"
UnsupportedFileType == "Failed to parse document: Error: Unsupported file type"
FileNotFound == "File not found in storage"

\* fetchOk: fetch(fileUrl) and response.arrayBuffer() did not throw
parseDocumentContentAnyType(fetchOk, fileType) ==
  IF ~fetchOk THEN Err(FetchFailed)
  ELSE IF fileType = "docx" THEN Ok(DocxContent)
  ELSE Ok(PdfContent)

parseDocumentContent(fetchOk, fileType) ==
  IF ~fetchOk THEN Err(FetchFailed)
  ELSE IF fileType = "pdf" THEN Ok(PdfContent)
  ELSE IF fileType = "docx" THEN Ok(DocxContent)
  ELSE Err(UnsupportedFileType)

markProcessingFailedKeepsFlag(documentId) ==
  docs' = Patch(docs, documentId, [parsedContent |-> ProcessingFailed])

updateDocumentAnalysisNoKeywords(documentId, summary, classification, keywords) ==
  docs' = Patch(docs, documentId,
                [summary |-> Some(summary), classification |-> Some(classification)])

updateDocumentAnalysisSwapped(documentId, summary, classification, keywords) ==
  docs' = Patch(docs, documentId,
                [summary |-> Some(classification), classification |-> Some(summary),
                 keywords |-> Some(keywords)])

saveAnalysisUpserted(id, documentId, userId, analysisType, result, confidence) ==
  analysis' =
    {a \in analysis : a.documentId # documentId \/ a.analysisType # analysisType} \cup
    {[id |-> id, documentId |-> documentId, userId |-> userId,
      analysisType |-> analysisType, result |-> result, confidence |-> confidence]}

saveAnalysisRetried(id, documentId, userId, analysisType, result, confidence) ==
  analysis' = analysis \cup
    {[id |-> n, documentId |-> documentId, userId |-> userId,
      analysisType |-> analysisType, result |-> result, confidence |-> confidence] :
       n \in {id, <<id[1], id[2] + 4>>}}

markProcessingFailedSkipped(documentId) == docs' = docs

updateParsedContentKeepsFlag(documentId, parsedContent) ==
  docs' = Patch(docs, documentId, [parsedContent |-> parsedContent])

updateParsedContent(documentId, parsedContent) ==
  docs' = Patch(docs, documentId,
                [parsedContent |-> parsedContent, isProcessed |-> TRUE])

markProcessingFailed(documentId) ==
  docs' = Patch(docs, documentId,
                [isProcessed |-> FALSE, parsedContent |-> ProcessingFailed])

\* id stands for the _id of the new row: the invocation and its loop index
saveAnalysis(id, documentId, userId, analysisType, result, confidence) ==
  analysis' = analysis \cup
    {[id |-> id, documentId |-> documentId, userId |-> userId,
      analysisType |-> analysisType, result |-> result, confidence |-> confidence]}

updateDocumentAnalysis(documentId, summary, classification, keywords) ==
  docs' = Patch(docs, documentId,
                [summary |-> Some(summary), classification |-> Some(classification),
                 keywords |-> Some(keywords)])

\* local state of one processDocument invocation
Proc(d, pc, document) ==
  [doc |-> d, pc |-> pc, storageId |-> document.storageId,
   fileType |-> document.fileType, userId |-> document.userId,
   content |-> "", error |-> "", i |-> 0]
NullDocument == [storageId |-> 0, fileType |-> "", userId |-> NoUser]
At(p, pc) == p \in DOMAIN procs /\ procs[p].pc = pc
Goto(p, pc) == procs' = [procs EXCEPT ![p].pc = pc]
Started(d) == Cardinality({p \in DOMAIN procs : procs[p].doc = d})

\* The scheduler delivers the job of saveDocument; with redeliver the job
\* stays pending and is delivered again.  The invocation starts with the
\* query getDocumentForProcessing; "Document not found" is thrown outside
\* the try block and ends the invocation with an error.
processDocumentStart(d, redeliver) ==
  /\ d \in scheduled
  /\ Len(procs) < MaxInvocations
  /\ scheduled' = IF redeliver THEN scheduled ELSE scheduled \ {d}
  /\ procs' = Append(procs, IF Exists(docs, d) THEN Proc(d, "extract", docs[d])
                                               ELSE Proc(d, "crashed", NullDocument))
  /\ UNCHANGED <<docs, nextDocId, storage, nextStorageId, analysis, client>>

processDocumentExtractIgnoresParser(p, fetchOk) ==
  /\ At(p, "extract")
  /\ LET fileUrl == getUrl(storage, procs[p].storageId)
         parsed == parseDocumentContent(fetchOk, procs[p].fileType)
     IN IF fileUrl = None
          THEN procs' = [procs EXCEPT ![p].pc = "markProcessingFailed",
                                      ![p].error = FileNotFound]
          ELSE procs' = [procs EXCEPT ![p].pc = "updateParsedContent",
                                      ![p].content = IF parsed.ok THEN parsed.result
                                                                  ELSE ""]
  /\ UNCHANGED <<db, client>>

processDocumentExtractThenAnalyze(p, fetchOk) ==
  /\ At(p, "extract")
  /\ LET fileUrl == getUrl(storage, procs[p].storageId)
         parsed == parseDocumentContent(fetchOk, procs[p].fileType)
     IN IF fileUrl = None
          THEN procs' = [procs EXCEPT ![p].pc = "analyzeDocument",
                                      ![p].error = FileNotFound]
          ELSE IF ~parsed.ok
            THEN procs' = [procs EXCEPT ![p].pc = "analyzeDocument",
                                        ![p].error = parsed.result]
            ELSE procs' = [procs EXCEPT ![p].pc = "updateParsedContent",
                                        ![p].content = parsed.result]
  /\ UNCHANGED <<db, client>>

\* ctx.storage.getUrl, then parseDocumentContent
processDocumentExtract(p, fetchOk) ==
  /\ At(p, "extract")
  /\ LET fileUrl == getUrl(storage, procs[p].storageId)
         parsed == parseDocumentContent(fetchOk, procs[p].fileType)
     IN IF fileUrl = None
          THEN procs' = [procs EXCEPT ![p].pc = "markProcessingFailed",
                                      ![p].error = FileNotFound]
          ELSE IF ~parsed.ok
            THEN procs' = [procs EXCEPT ![p].pc = "markProcessingFailed",
                                        ![p].error = parsed.result]
            ELSE procs' = [procs EXCEPT ![p].pc = "updateParsedContent",
                                        ![p].content = parsed.result]
  /\ UNCHANGED <<db, client>>

\* db.patch throws when the document does not exist
processDocumentUpdate(p) ==
  /\ At(p, "updateParsedContent")
  /\ IF Exists(docs, procs[p].doc)
       THEN /\ updateParsedContent(procs[p].doc, procs[p].content)
            /\ Goto(p, "analyzeDocument")
       ELSE /\ Goto(p, "markProcessingFailed")
            /\ UNCHANGED docs
  /\ UNCHANGED <<nextDocId, storage, nextStorageId, analysis, scheduled, client>>

processDocumentFailed(p) ==
  /\ At(p, "markProcessingFailed")
  /\ IF Exists(docs, procs[p].doc)
       THEN /\ markProcessingFailed(procs[p].doc)
            /\ Goto(p, "done")
       ELSE /\ Goto(p, "crashed")
            /\ UNCHANGED docs
  /\ UNCHANGED <<nextDocId, storage, nextStorageId, analysis, scheduled, client>>

\* analyzeDocument: the query, then the four analyzeWithAI calls
analyzeDocumentStart(p) ==
  /\ At(p, "analyzeDocument")
  /\ IF Exists(docs, procs[p].doc)
       THEN procs' = [procs EXCEPT ![p].pc = "saveAnalysis", ![p].i = 1,
                                   ![p].userId = docs[procs[p].doc].userId]
       ELSE Goto(p, "done")
  /\ UNCHANGED <<db, client>>

analyzeDocumentSave(p) ==
  /\ At(p, "saveAnalysis")
  /\ LET i == procs[p].i
         a == analyzeWithAI(procs[p].content, AnalysisTypes[i])
     IN /\ saveAnalysis(<<p, i>>, procs[p].doc, procs[p].userId, AnalysisTypes[i],
                        a.result, a.confidence)
        /\ procs' = [procs EXCEPT ![p].i = i + 1,
                       ![p].pc = IF i < Len(AnalysisTypes)
                                   THEN "saveAnalysis" ELSE "updateDocumentAnalysis"]
  /\ UNCHANGED <<docs, nextDocId, storage, nextStorageId, scheduled, client>>

analyzeDocumentUpdate(p) ==
  /\ At(p, "updateDocumentAnalysis")
  /\ IF Exists(docs, procs[p].doc)
       THEN updateDocumentAnalysis(procs[p].doc,
              analyzeWithAI(procs[p].content, "summary").result,
              analyzeWithAI(procs[p].content, "classification").result,
              keywordsOf(analyzeWithAI(procs[p].content, "keywords").result))
       ELSE UNCHANGED docs
  /\ Goto(p, "done")
  /\ UNCHANGED <<nextDocId, storage, nextStorageId, analysis, scheduled, client>>

AnalysisFailed == "AI analysis failed"

analyzeDocumentFailsRethrown(p) ==
  /\ procs[p].pc \in {"analyzeDocument", "saveAnalysis", "updateDocumentAnalysis"}
  /\ procs' = [procs EXCEPT ![p].pc = "markProcessingFailed", ![p].error = AnalysisFailed]
  /\ UNCHANGED <<db, client>>

\* A call inside the try block of analyzeDocument throws although the
\* document exists: the query, a saveAnalysis or the updateDocumentAnalysis
\* mutation is rejected by the platform.  The mutation commits nothing, the
\* catch block logs "AI analysis failed:" and analyzeDocument returns
\* normally to processDocument, which has nothing left to do.
analyzeDocumentFails(p) ==
  /\ procs[p].pc \in {"analyzeDocument", "saveAnalysis", "updateDocumentAnalysis"}
  /\ procs' = [procs EXCEPT ![p].pc = "done", ![p].error = AnalysisFailed]
  /\ UNCHANGED <<db, client>>

\* ------------------------------------------ components/DocumentUpload
\* handleFileUpload: the two validations, then generateUploadUrl, the POST
\* of the file and saveDocument.  uploadOk is the outcome of the POST.  The
\* handler touches only the blob and the row it creates, so its three calls
\* are taken as one step; a run that stops at a validation, at the sign-in
\* check or at a failed POST changes nothing and is not a step.
handleFileUpload(caller, file, uploadOk) ==
  /\ file.type \in allowedTypes
  /\ file.size <= MaxFileSize
  /\ caller # NoUser
  /\ uploadOk
  /\ nextDocId <= MaxDocs
  /\ StoreBlob
  /\ saveDocumentEffect(caller,
       [fileName |-> file.name,
        fileType |-> IF file.type = PdfMime THEN "pdf" ELSE "docx",
        fileSize |-> file.size, storageId |-> nextStorageId])
  /\ UNCHANGED <<analysis, procs>>

\* a client that calls the storage service directly
uploadBlob ==
  /\ StoreBlob
  /\ UNCHANGED <<docs, nextDocId, analysis, scheduled, procs>>

Silent(A) == A /\ UNCHANGED client

\* inputs
Files == [name : FileNames, type : MimeTypes, size : FileSizes]
\* what a client that calls saveDocument directly declares; the storage id
\* is one the storage service has issued
Declared == {<<"pdf", SmallFile>>, <<"txt", SmallFile>>, <<"pdf", MaxFileSize + 1>>}
SaveArgs == {[fileName |-> n, fileType |-> t[1], fileSize |-> t[2], storageId |-> b] :
               n \in FileNames, t \in Declared, b \in 1..(nextStorageId - 1)}
DocIds == 1..MaxDocs

\* the pipeline: documents are created, processed and deleted
Next ==
  \/ \E c \in Users, f \in Files, ok \in BOOLEAN : Silent(handleFileUpload(c, f, ok))
  \/ \E c \in Users, a \in SaveArgs : Silent(saveDocument(c, a))
  \/ \E c \in Users, d \in DocIds, failAt \in 0..3 : Silent(deleteDocument(c, d, failAt))
  \/ \E d \in DocIds, redeliver \in BOOLEAN : processDocumentStart(d, redeliver)
  \/ \E p \in DOMAIN procs, fetchOk \in BOOLEAN : processDocumentExtract(p, fetchOk)
  \/ \E p \in DOMAIN procs : processDocumentUpdate(p)
  \/ \E p \in DOMAIN procs : processDocumentFailed(p)
  \/ \E p \in DOMAIN procs : analyzeDocumentStart(p)
  \/ \E p \in DOMAIN procs : analyzeDocumentSave(p)
  \/ \E p \in DOMAIN procs : analyzeDocumentUpdate(p)

Spec == Init /\ [][Next]_vars

\* the pipeline of uploaded documents when calls of analyzeDocument may fail
NextFaults ==
  \/ \E c \in Users, f \in Files, ok \in BOOLEAN : Silent(handleFileUpload(c, f, ok))
  \/ \E c \in Users, d \in DocIds : Silent(deleteDocument(c, d, 0))
  \/ \E d \in DocIds, redeliver \in BOOLEAN : processDocumentStart(d, redeliver)
  \/ \E p \in DOMAIN procs, fetchOk \in BOOLEAN : processDocumentExtract(p, fetchOk)
  \/ \E p \in DOMAIN procs : processDocumentUpdate(p)
  \/ \E p \in DOMAIN procs : processDocumentFailed(p)
  \/ \E p \in DOMAIN procs : analyzeDocumentStart(p)
  \/ \E p \in DOMAIN procs : analyzeDocumentSave(p)
  \/ \E p \in DOMAIN procs : analyzeDocumentUpdate(p)
  \/ \E p \in DOMAIN procs : analyzeDocumentFails(p)

SpecFaults == Init /\ [][NextFaults]_vars

\* MaxInvocations limits the model, not the scheduler.  In the fair
\* specification an invocation is kept for every pending job that has not
\* been delivered yet, so that the first delivery of a job is never refused:
\* a duplicate delivery, and the upload of one more document, take place
\* only while an invocation is to spare.
Spare ==
  Len(procs) + Cardinality({d \in scheduled : Started(d) = 0}) < MaxInvocations

deliver(d, redeliver) ==
  /\ Started(d) = 0 \/ Spare
  /\ processDocumentStart(d, redeliver)

\* the next step of invocation p in processDocument itself
processDocumentStep(p) ==
  \/ \E fetchOk \in BOOLEAN : processDocumentExtract(p, fetchOk)
  \/ processDocumentUpdate(p)
  \/ processDocumentFailed(p)

\* the next step of invocation p inside its call of analyzeDocument
analyzeDocumentStep(p) ==
  \/ analyzeDocumentStart(p)
  \/ analyzeDocumentSave(p)
  \/ analyzeDocumentUpdate(p)

\* the pipeline under fair scheduling
NextLive ==
  \/ Spare /\ \E c \in Users, f \in Files, ok \in BOOLEAN :
                Silent(handleFileUpload(c, f, ok))
  \/ Spare /\ \E c \in Users, a \in SaveArgs : Silent(saveDocument(c, a))
  \/ \E c \in Users, d \in DocIds : Silent(deleteDocument(c, d, 0))
  \/ \E d \in DocIds, redeliver \in BOOLEAN : deliver(d, redeliver)
  \/ \E p \in 1..MaxInvocations : processDocumentStep(p)
  \/ \E p \in 1..MaxInvocations : analyzeDocumentStep(p)

\* The scheduler delivers every job at least once, and a processDocument
\* action that has started runs on until it returns or throws.  Nothing is
\* assumed about the progress of analyzeDocument.
Fairness ==
  /\ \A d \in DocIds : WF_vars(\E redeliver \in BOOLEAN : deliver(d, redeliver))
  /\ \A p \in 1..MaxInvocations : WF_vars(processDocumentStep(p))

SpecLive == Init /\ [][NextLive]_vars /\ Fairness

\* the public functions, called by signed-in and anonymous clients, with
\* what each call returns; compareDocuments is called here by anonymous
\* clients only, for whom it returns before its first query
Questions == {"q"}
Limits == {None, Some(0), Some(1), Some(DefaultPageSize), Some(DefaultPageSize + 1)}
SearchArgs == [query : {"report", "content", "missing"},
               searchType : {"content", "filename"},
               fileType : {None, Some(""), Some("pdf")}]
Observed(A, op, caller, args, r) ==
  A /\ Returns(op, caller, args, r) /\ UNCHANGED <<compare, components>>

NextApi ==
  \/ \E c \in Callers, n \in FileSizes :
       Observed(generateUploadUrl(c), "generateUploadUrl", c, <<n>>,
                generateUploadUrlHandler(c))
  \/ Observed(uploadBlob, "upload", NoUser, <<>>, Ok(nextStorageId))
  \/ \E c \in Callers, f \in Files, ok \in BOOLEAN :
       Observed(handleFileUpload(c, f, ok), "handleFileUpload", c, <<>>,
                Ok(nextDocId))
  \/ \E c \in Callers, a \in SaveArgs :
       Observed(saveDocument(c, a), "saveDocument", c, <<>>,
                saveDocumentHandler(c))
  \/ \E c \in Callers, d \in DocIds :
       Observed(getDocument(c, d), "getDocument", c, <<d>>,
                getDocumentHandler(docs, storage, c, d))
  \/ \E c \in Callers, d \in DocIds, failAt \in 0..3 :
       Observed(deleteDocument(c, d, failAt), "deleteDocument", c, <<d>>,
                deleteDocumentHandler(docs, c, d, failAt))
  \/ \E c \in Callers, d \in DocIds, q \in Questions :
       Observed(chatWithDocument(c, d, q), "chatWithDocument", c, <<d>>,
                chatWithDocumentHandler(docs, c, d, q))
  \/ \E c \in Callers, limit \in Limits :
       Observed(getUserDocuments(c, limit), "getUserDocuments", c, <<limit>>,
                getUserDocumentsHandler(docs, storage, c, limit))
  \/ \E c \in Callers, a \in SearchArgs :
       \E r \in searchDocumentsResults(docs, storage, c, a) :
         Observed(searchDocuments(c, a), "searchDocuments", c, <<a>>, r)
  \/ \E c \in Callers, d \in DocIds :
       Observed(getDocumentAnalysis(c, d), "getDocumentAnalysis", c, <<d>>,
                getDocumentAnalysisHandler(analysis, c, d))
  \/ \E d1 \in DocIds, d2 \in DocIds : compareDocumentsStart(NoUser, d1, d2, 1)

SpecApi == Init /\ [][NextApi]_vars

\* A table of n documents for the list and search queries.  One document in
\* `others` belongs to u2, the rest to u1; pdf and docx alternate; the
\* MaxFound oldest documents are named "report" and have been extracted, the
\* later ones are named "notes" and wait for their processDocument job.
LargeTable(n, others) ==
  [d \in 1..n |->
     LET row == NewDocument(IF d % others = 0 THEN "u2" ELSE "u1",
                            [fileName |-> IF d <= MaxFound THEN "report" ELSE "notes",
                             fileType |-> IF d % 2 = 0 THEN "docx" ELSE "pdf",
                             fileSize |-> SmallFile, storageId |-> d], d)
     IN IF d <= MaxFound
          THEN [row EXCEPT !.isProcessed = TRUE,
                           !.parsedContent = IF d % 2 = 0 THEN DocxContent ELSE PdfContent]
          ELSE row]

InitQuery ==
  \E n \in 0..MaxRows, others \in {12, MaxRows + 1} :
    /\ docs = LargeTable(n, others)
    /\ nextDocId = n + 1
    /\ storage = 1..n
    /\ nextStorageId = n + 1
    /\ analysis = {}
    /\ scheduled = {d \in 1..n : d > MaxFound}
    /\ procs = <<>>
    /\ lastCall = NoCall
    /\ compare = NoCompare
    /\ DocumentChat = NewDocumentChat
    /\ DocumentComparison = NewDocumentComparison

\* One list or search query on a table larger than the page sizes.  A query
\* changes nothing, so a second query would see what the first one saw.
NextQuery ==
  \/ /\ lastCall.op = NoCall.op
     /\ \E c \in Callers, limit \in Limits :
          Observed(getUserDocuments(c, limit), "getUserDocuments", c, <<limit>>,
                   getUserDocumentsHandler(docs, storage, c, limit))
  \/ /\ lastCall.op = NoCall.op
     /\ \E c \in Callers, a \in SearchArgs :
          \E r \in searchDocumentsResults(docs, storage, c, a) :
            Observed(searchDocuments(c, a), "searchDocuments", c, <<a>>, r)

SpecQuery == InitQuery /\ [][NextQuery]_vars

\* A document as the pipeline leaves it: Uploaded (as saveDocument created
\* it), Ready (extracted and analysed) or Failed (marked by the catch block)
DocStates == {"Uploaded", "Ready", "Failed"}
InState(row, state) ==
  CASE state = "Uploaded" ->
         [row EXCEPT !.parsedContent = "", !.isProcessed = FALSE, !.summary = None,
                     !.classification = None, !.keywords = None]
    [] state = "Failed" ->
         [row EXCEPT !.parsedContent = ProcessingFailed, !.isProcessed = FALSE,
                     !.summary = None, !.classification = None, !.keywords = None]
    [] state = "Ready" ->
         [row EXCEPT !.parsedContent = parseDocumentContent(TRUE, row.fileType).result,
                     !.isProcessed = TRUE,
                     !.summary = Some(analyzeWithAI("", "summary").result),
                     !.classification = Some(analyzeWithAI("", "classification").result),
                     !.keywords = Some(keywordsOf(analyzeWithAI("", "keywords").result))]

\* the runs that brought the documents 1..n into their states, one finished
\* run for every document that is Ready or Failed, and the rows they inserted
RECURSIVE Runs(_, _)
Runs(table, n) ==
  IF n = 0 THEN <<>>
  ELSE IF table[n].isProcessed
    THEN Append(Runs(table, n - 1),
                [Proc(n, "done", table[n]) EXCEPT !.content = table[n].parsedContent,
                                                  !.i = 5])
    ELSE IF table[n].parsedContent = ProcessingFailed
      THEN Append(Runs(table, n - 1),
                  [Proc(n, "done", table[n]) EXCEPT !.error = FetchFailed])
      ELSE Runs(table, n - 1)
RowsOf(runs) ==
  {[id |-> <<p, k>>, documentId |-> runs[p].doc, userId |-> runs[p].userId,
    analysisType |-> AnalysisTypes[k],
    result |-> analyzeWithAI(runs[p].content, AnalysisTypes[k]).result,
    confidence |-> Confidence] : p \in {q \in DOMAIN runs : runs[q].i = 5}, k \in 1..4}

\* the documents 1..n, owned and in the states given
Table(n, owner, state) ==
  [d \in 1..n |->
     InState(NewDocument(owner[d],
               [fileName |-> "report", fileType |-> IF d % 2 = 0 THEN "docx" ELSE "pdf",
                fileSize |-> SmallFile, storageId |-> d], d),
             state[d])]

\* the database that holds these documents, with their blobs, the analysis
\* rows of the Ready ones and the pending jobs of the Uploaded ones
Holds(table) ==
  LET n == Len(table)
  IN /\ docs = table
     /\ nextDocId = n + 1
     /\ storage = 1..n
     /\ nextStorageId = n + 1
     /\ analysis = RowsOf(Runs(table, n))
     /\ scheduled = {d \in 1..n : table[d].parsedContent = ""}
     /\ procs = Runs(table, n)

InitRead ==
  \E n \in 0..MaxDocs :
  \E owner \in [1..n -> Users], state \in [1..n -> DocStates] :
    /\ Holds(Table(n, owner, state))
    /\ lastCall = NoCall
    /\ compare = NoCompare
    /\ DocumentChat = NewDocumentChat
    /\ DocumentComparison = NewDocumentComparison

\* chatWithDocument and compareDocuments on documents in every state, while
\* documents are deleted
NextRead ==
  \/ \E c \in Callers, d \in DocIds, q \in Questions :
       Observed(chatWithDocument(c, d, q), "chatWithDocument", c, <<d>>,
                chatWithDocumentHandler(docs, c, d, q))
  \/ \E c \in Callers, d1 \in DocIds, d2 \in DocIds, first \in 1..2 :
       compareDocumentsStart(c, d1, d2, first)
  \/ compareDocumentsFinish
  \/ \E c \in Users, d \in DocIds :
       Observed(deleteDocument(c, d, 0), "deleteDocument", c, <<d>>,
                deleteDocumentHandler(docs, c, d, 0))

SpecRead == InitRead /\ [][NextRead]_vars

\* compareDocuments, running while documents are created and deleted
NextCompare ==
  \/ \E c \in Users, f \in Files, ok \in BOOLEAN : Silent(handleFileUpload(c, f, ok))
  \/ \E c \in Users, a \in SaveArgs : Silent(saveDocument(c, a))
  \/ \E c \in Users, d \in DocIds, failAt \in 0..3 : Silent(deleteDocument(c, d, failAt))
  \/ \E c \in Callers, d1 \in DocIds, d2 \in DocIds, first \in 1..2 :
       compareDocumentsStart(c, d1, d2, first)
  \/ compareDocumentsFinish

SpecCompare == Init /\ [][NextCompare]_vars

\* ----------------------------------- components/DocumentManager
\* the user who is signed in at the browser that shows the panels
SignedIn == "u1"
ShownIds == 1..MaxShown

\* useQuery(api.documents.getUserDocuments, { limit: 50 }): the documents
\* prop of the panels, which the reactive query keeps up to date
documents == getUserDocumentsHandler(docs, storage, SignedIn, Some(DefaultPageSize)).result
\* documents.filter(doc => doc.isProcessed), as the set of their ids
processedDocuments ==
  {documents[i].id : i \in {j \in DOMAIN documents : documents[j].doc.isProcessed}}

\* the panels are mounted over the documents of the signed-in user
InitPanels ==
  \E n \in 0..MaxShown :
  \E state \in [1..n -> DocStates] :
    /\ Holds(Table(n, [d \in 1..n |-> SignedIn], state))
    /\ lastCall = NoCall
    /\ compare = NoCompare
    /\ DocumentChat = NewDocumentChat
    /\ DocumentComparison = NewDocumentComparison

\* the user deletes a document in another tab or session
deletedElsewhere(d) == deleteDocument(SignedIn, d, 0) /\ UNCHANGED client

\* -------------------------------------- components/DocumentChat
\* documents.find(doc => doc._id === selectedDocumentId) is defined
selectedDocument ==
  /\ DocumentChat.selectedDocumentId # None
  /\ \E i \in DOMAIN documents : documents[i].id = DocumentChat.selectedDocumentId[1]

Apology ==
  Str("I'm sorry, I couldn't process your question at the moment. Please try again.")

\* the input field, which is disabled without a selected document and
\* while a question is in flight
setInputMessage(text) ==
  /\ selectedDocument
  /\ ~DocumentChat.isLoading
  /\ DocumentChat' = [DocumentChat EXCEPT !.inputMessage = text]
  /\ UNCHANGED <<db, procs, lastCall, compare, DocumentComparison>>

\* the button of a processed document in the selection list
onSelectDocument(d) ==
  /\ d \in processedDocuments
  /\ DocumentChat' = [DocumentChat EXCEPT !.selectedDocumentId = Some(d),
                                          !.messages = <<>>]
  /\ UNCHANGED <<db, procs, lastCall, compare, DocumentComparison>>

\* handleSendMessage up to the call of the action.  The form is submitted
\* from the input field or the send button, both disabled without a
\* selected document.  A message carries the document and the number of
\* the question it belongs to.
handleSendMessage ==
  /\ trim(DocumentChat.inputMessage) # <<>>
  /\ DocumentChat.selectedDocumentId # None
  /\ ~DocumentChat.isLoading
  /\ selectedDocument
  /\ DocumentChat.asked < MaxQuestions
  /\ LET d == DocumentChat.selectedDocumentId[1]
         n == DocumentChat.asked + 1
         text == trim(DocumentChat.inputMessage)
     IN DocumentChat' =
          [DocumentChat EXCEPT
             !.messages = Append(@, [type |-> "user", content |-> text,
                                     documentId |-> d, question |-> n]),
             !.inputMessage = <<>>,
             !.isLoading = TRUE,
             !.calls = @ \cup {[documentId |-> d, question |-> text, n |-> n]},
             !.asked = n]
  /\ UNCHANGED <<db, procs, lastCall, compare, DocumentComparison>>

\* the action returns or throws: the rest of handleSendMessage
chatWithDocumentReturns(call) ==
  /\ call \in DocumentChat.calls
  /\ LET r == chatWithDocumentHandler(docs, SignedIn, call.documentId, call.question)
     IN DocumentChat' =
          [DocumentChat EXCEPT
             !.messages = Append(@, [type |-> "assistant",
                                     content |-> IF r.ok THEN r.result.answer ELSE Apology,
                                     documentId |-> call.documentId,
                                     question |-> call.n]),
             !.isLoading = FALSE,
             !.calls = @ \ {call}]
  /\ UNCHANGED <<db, procs, lastCall, compare, DocumentComparison>>

\* the Clear Chat button, shown while there are messages
clearChat ==
  /\ DocumentChat.messages # <<>>
  /\ DocumentChat' = [DocumentChat EXCEPT !.messages = <<>>]
  /\ UNCHANGED <<db, procs, lastCall, compare, DocumentComparison>>

Typed == {<<" ">>, <<"why", " ">>}

NextChat ==
  \/ \E text \in Typed : setInputMessage(text)
  \/ \E d \in ShownIds : onSelectDocument(d)
  \/ handleSendMessage
  \/ \E call \in DocumentChat.calls : chatWithDocumentReturns(call)
  \/ clearChat
  \/ \E d \in ShownIds : deletedElsewhere(d)

SpecChat == InitPanels /\ [][NextChat]_vars

\* -------------------------------- components/DocumentComparison
\* the selection lists and the Compare button are rendered when there are
\* at least two processed documents
Comparable == Cardinality(processedDocuments) >= 2

\* a button of the list "Document 1" or "Document 2"
onSelectCompareDocuments(slot, d) ==
  /\ Comparable
  /\ d \in processedDocuments
  /\ DocumentComparison' = [DocumentComparison EXCEPT !.compareDocuments[slot] = Some(d)]
  /\ UNCHANGED <<db, procs, lastCall, compare, DocumentChat>>

\* handleCompare up to the call of the action; the button is disabled
\* without two ids and while a comparison runs, and a click with the same
\* id twice shows a toast and does nothing else
handleCompare ==
  /\ Comparable
  /\ DocumentComparison.compareDocuments.doc1 # None
  /\ DocumentComparison.compareDocuments.doc2 # None
  /\ ~DocumentComparison.isComparing
  /\ DocumentComparison.compareDocuments.doc1 # DocumentComparison.compareDocuments.doc2
  /\ DocumentComparison.compared < MaxComparisons
  /\ DocumentComparison' =
       [DocumentComparison EXCEPT
          !.isComparing = TRUE,
          !.comparisonResult = None,
          !.calls = @ \cup {[documentId1 |-> DocumentComparison.compareDocuments.doc1[1],
                             documentId2 |-> DocumentComparison.compareDocuments.doc2[1],
                             n |-> DocumentComparison.compared + 1]},
          !.compared = @ + 1]
  /\ UNCHANGED <<db, procs, lastCall, compare, DocumentChat>>

\* the action returns or throws: the rest of handleCompare.  The two
\* queries of the action are taken together here.
compareDocumentsReturns(call) ==
  /\ call \in DocumentComparison.calls
  /\ LET r == compareDocumentsHandler(SignedIn, call.documentId1, call.documentId2,
                  getDocumentForProcessing(docs, call.documentId1),
                  getDocumentForProcessing(docs, call.documentId2))
     IN DocumentComparison' =
          [DocumentComparison EXCEPT
             !.comparisonResult = IF r.ok THEN Some(r.result) ELSE @,
             !.isComparing = FALSE,
             !.calls = @ \ {call}]
  /\ UNCHANGED <<db, procs, lastCall, compare, DocumentChat>>

\* the Clear button of the result
clearComparison ==
  /\ Comparable
  /\ DocumentComparison.comparisonResult # None
  /\ DocumentComparison' =
       [DocumentComparison EXCEPT !.comparisonResult = None,
                                  !.compareDocuments = [doc1 |-> None, doc2 |-> None]]
  /\ UNCHANGED <<db, procs, lastCall, compare, DocumentChat>>

NextComparison ==
  \/ \E slot \in {"doc1", "doc2"}, d \in ShownIds : onSelectCompareDocuments(slot, d)
  \/ handleCompare
  \/ \E call \in DocumentComparison.calls : compareDocumentsReturns(call)
  \/ clearComparison
  \/ \E d \in ShownIds : deletedElsewhere(d)

SpecComparison == InitPanels /\ [][NextComparison]_vars

\* ------------------------------------------------------------ properties
Kinds == {AnalysisTypes[i] : i \in DOMAIN AnalysisTypes}
AnalysisOf(d, k) == {a \in analysis : a.documentId = d /\ a.analysisType = k}

\* C1: a document whose isProcessed flag is true has parsed content that is
\* neither empty nor the failure sentinel "Processing failed", whatever the
\* interleaving of saveDocument, processDocument invocations and
\* deleteDocument.
C1_ProcessedHasContent ==
  \A d \in DOMAIN docs :
    docs[d].isProcessed =>
      docs[d].parsedContent # "" /\ docs[d].parsedContent # ProcessingFailed

\* two invocations ran for a document that is now processed
C1_Witness ==
  \E d \in DOMAIN docs :
    /\ docs[d].isProcessed
    /\ Started(d) = 2
    /\ \A p \in DOMAIN procs : procs[p].pc \in {"done", "crashed"}

\* C2: summary, classification and keywords of a document are all three
\* present or all three absent, in every state an observer can read.
C2_AnalysisFieldsTogether ==
  \A d \in DOMAIN docs :
    /\ (docs[d].summary = None) = (docs[d].classification = None)
    /\ (docs[d].summary = None) = (docs[d].keywords = None)

\* a document carries its analysis while another invocation is still
\* writing analysis rows for it
C2_Witness ==
  \E d \in DOMAIN docs :
    /\ docs[d].summary # None
    /\ \E p \in DOMAIN procs : procs[p].doc = d /\ procs[p].pc = "saveAnalysis"

\* C10: for every document and kind, the number of analysis rows of that kind
\* is at most the number of processDocument invocations started for the
\* document.
C10_DuplicatesBounded ==
  \A d \in DocIds, k \in Kinds : Cardinality(AnalysisOf(d, k)) <= Started(d)

\* two invocations for one document each inserted a row of the same kind
C10_Witness ==
  \E d \in DOMAIN docs, k \in Kinds : Cardinality(AnalysisOf(d, k)) = 2

\* C3: getDocument, deleteDocument and chatWithDocument called by a signed-in
\* user on a document of another user fail with the error they return for a
\* document that does not exist, and change nothing.
OwnerChecked == {"getDocument", "deleteDocument", "chatWithDocument"}
ResultOf(op, table, caller, d) ==
  CASE op = "getDocument" -> getDocumentHandler(table, storage, caller, d)
    [] op = "deleteDocument" -> deleteDocumentHandler(table, caller, d, 0)
    [] op = "chatWithDocument" ->
         chatWithDocumentHandler(table, caller, d, CHOOSE q \in Questions : TRUE)
OnForeignDocument(call) ==
  /\ call.op \in OwnerChecked
  /\ call.caller \in Users
  /\ Exists(docs, call.args[1])
  /\ docs[call.args[1]].userId # call.caller
C3_SameAsMissing ==
  OnForeignDocument(lastCall) =>
    LET missing == ResultOf(lastCall.op, Delete(docs, lastCall.args[1]),
                            lastCall.caller, lastCall.args[1])
    IN /\ ~lastCall.ok
       /\ ~missing.ok
       /\ lastCall.result = missing.result
C3_NoEffect ==
  (lastCall'.op \in OwnerChecked /\ ~lastCall'.ok /\ lastCall'.result = DocError)
    => UNCHANGED db
C3_ForeignIsMissing == [](C3_SameAsMissing) /\ [][C3_NoEffect]_vars

\* a signed-in user has just called one of the three on another user's document
C3_Witness ==
  /\ OnForeignDocument(lastCall)
  /\ lastCall.op = "chatWithDocument"

\* C4: compareDocuments returns a comparison only if both documents exist and
\* both belong to the caller; in every other case a signed-in caller gets the
\* one error "Documents not found or access denied".
ComparedBy(call) == call.op = "compareDocuments" /\ call.caller \in Users
C4_Result ==
  ComparedBy(lastCall) =>
    /\ lastCall.ok =>
         \A i \in 1..2 :
           /\ lastCall.args[i] < nextDocId
           /\ Exists(docs, lastCall.args[i]) =>
                docs[lastCall.args[i]].userId = lastCall.caller
    /\ ~lastCall.ok => lastCall.result = DocsError
\* the step in which the call returns: the first document as it was read,
\* the second as it is now
C4_Return ==
  (compare # NoCompare /\ compare' = NoCompare) =>
    LET other == compare.ids[3 - compare.first]
        bothOwned == /\ compare.doc # None
                     /\ compare.doc[1].userId = compare.caller
                     /\ Exists(docs, other)
                     /\ docs[other].userId = compare.caller
    IN /\ lastCall'.ok = bothOwned
       /\ ~bothOwned => lastCall'.result = DocsError
C4_CompareOwnDocumentsOnly == [](C4_Result) /\ [][C4_Return]_vars

\* both documents exist, they belong to different users, the call failed
C4_Witness ==
  /\ ComparedBy(lastCall)
  /\ ~lastCall.ok
  /\ \A i \in 1..2 : Exists(docs, lastCall.args[i])
  /\ docs[lastCall.args[1]].userId # docs[lastCall.args[2]].userId

\* C5: when deleteDocument succeeds the document row, its blob and every
\* analysis row of the document are gone, getDocument on the id fails for
\* every user with "Document not found or access denied", and the id never
\* comes back.
C5_Deleted ==
  \A d \in DOMAIN docs :
    ~Exists(docs', d) =>
      /\ docs[d].storageId \notin storage'
      /\ \A a \in analysis' : a.documentId # d
      /\ \A u \in Users : getDocumentHandler(docs', storage', u, d) = Err(DocError)
C5_StaysDeleted ==
  \A d \in 1..(nextDocId - 1) : ~Exists(docs, d) => ~Exists(docs', d)
C5_DeleteRemovesAll == [][C5_Deleted /\ C5_StaysDeleted]_vars

\* a document was deleted after an invocation had inserted its four rows
C5_Witness ==
  \E p \in DOMAIN procs :
    /\ procs[p].i = 5
    /\ ~Exists(docs, procs[p].doc)
    /\ \A a \in analysis : a.documentId # procs[p].doc

\* C6: deleteDocument is all or nothing: a step that removes a blob, a
\* document row or an analysis row removes one document together with its
\* blob and all of its analysis rows; a deleteDocument that fails removes
\* nothing.
C6_Step ==
  (storage \ storage' # {} \/ DOMAIN docs \ DOMAIN docs' # {} \/ analysis \ analysis' # {})
    => \E d \in DOMAIN docs :
         /\ docs' = Delete(docs, d)
         /\ storage' = storage \ {docs[d].storageId}
         /\ analysis' = {a \in analysis : a.documentId # d}
C6_AllOrNothing == [][C6_Step]_vars

\* one document was deleted with its blob while another keeps its blob and
\* its analysis rows
C6_Witness ==
  /\ \E d \in 1..(nextDocId - 1) : ~Exists(docs, d)
  /\ \E e \in DOMAIN docs :
       /\ docs[e].storageId \in storage
       /\ \E a \in analysis : a.documentId = e

\* C7 as stated: a processDocument run on a document whose file type is not
\* pdf or docx leaves the document as saveDocument created it.
C7_NotMutated ==
  \A p \in DOMAIN procs :
    (procs[p].pc \in {"done", "crashed"} /\ procs[p].fileType \notin SupportedTypes
       /\ Exists(docs, procs[p].doc))
      => /\ docs[procs[p].doc].parsedContent = ""
         /\ ~docs[procs[p].doc].isProcessed

\* C7 amended: on a document whose file type is not pdf or docx extraction
\* always fails, with the unsupported-file-type error unless the blob is
\* missing or its fetch fails; the run never writes extractor output and
\* never starts the analysis; and a step changes such a document only by
\* setting parsedContent to "Processing failed" and isProcessed to false,
\* which is how the document is found when the run has ended.
Unsupported(p) == procs[p].fileType \notin SupportedTypes
C7_RunFails ==
  \A p \in DOMAIN procs :
    Unsupported(p) =>
      /\ procs[p].pc \in {"extract", "markProcessingFailed", "done", "crashed"}
      /\ procs[p].content = ""
      /\ procs[p].pc \in {"markProcessingFailed", "done"} =>
           procs[p].error \in {UnsupportedFileType, FileNotFound, FetchFailed}
      /\ (procs[p].pc = "done" /\ Exists(docs, procs[p].doc)) =>
           /\ docs[procs[p].doc].parsedContent = ProcessingFailed
           /\ ~docs[procs[p].doc].isProcessed
C7_OnlyMarkedFailed ==
  \A d \in DOMAIN docs \cap DOMAIN docs' :
    docs[d].fileType \notin SupportedTypes =>
      \/ docs'[d] = docs[d]
      \/ docs'[d] = [docs[d] EXCEPT !.parsedContent = ProcessingFailed,
                                    !.isProcessed = FALSE]
C7_UnsupportedTypeFails == [](C7_RunFails) /\ [][C7_OnlyMarkedFailed]_vars

\* a run on a txt document failed with the unsupported-file-type error and
\* has marked the document failed
C7_Witness ==
  \E p \in DOMAIN procs :
    /\ Unsupported(p)
    /\ procs[p].pc = "done"
    /\ procs[p].error = UnsupportedFileType
    /\ Exists(docs, procs[p].doc)
    /\ docs[procs[p].doc].parsedContent = ProcessingFailed

\* C8: every document row has file type pdf or docx: saveDocument with any
\* other declared type inserts nothing and schedules nothing.
C8_OnlySupportedTypes ==
  /\ \A d \in DOMAIN docs : docs[d].fileType \in SupportedTypes
  /\ \A d \in scheduled : Exists(docs, d) => docs[d].fileType \in SupportedTypes

\* C9: generateUploadUrl returns no upload URL for a file larger than 10 MiB
\* and no document row has a fileSize above 10 MiB.
C9_SizeCap ==
  /\ (lastCall.op = "generateUploadUrl" /\ lastCall.ok) => lastCall.args[1] <= MaxFileSize
  /\ \A d \in DOMAIN docs : docs[d].fileSize <= MaxFileSize

\* C11: a pdf or docx document whose blob is fetched, whose trigger is
\* delivered exactly once and which is not deleted ends its processDocument
\* run with isProcessed true, the extractor output as parsed content, the
\* summary set, the classification set to the fixed classification output,
\* the keywords the non-empty list of the trimmed terms of the comma-joined
\* keywords result, in order, and exactly four analysis rows, one of each of
\* the kinds summary, classification, keywords, insights.
C11_Succeeded(p) ==
  /\ procs[p].pc = "done"
  /\ procs[p].error = ""
  /\ procs[p].fileType \in SupportedTypes
  /\ Exists(docs, procs[p].doc)
  /\ Started(procs[p].doc) = 1
  /\ procs[p].doc \notin scheduled
C11_Keywords ==
  <<Str("business"), Str("strategy"), Str("implementation"), Str("process"),
    Str("guidelines"), Str("management"), Str("operations"), Str("efficiency")>>
C12_LateWrite(p) ==
  /\ procs[p].pc \in {"updateParsedContent", "markProcessingFailed",
                      "updateDocumentAnalysis"}
  /\ ~Exists(docs, procs[p].doc)
C12_Step ==
  \A p \in DOMAIN procs :
    (C12_LateWrite(p) /\ procs'[p] # procs[p]) =>
      /\ UNCHANGED db
      /\ procs'[p].pc # "crashed"
C12_LateWriteIsNoOp == [][C12_Step]_vars

\* C13: once a document has isProcessed false and parsed content "Processing
\* failed", no later step changes its isProcessed flag or its parsed
\* content, also when the trigger is delivered more than once.
C13_Failed(d) == ~docs[d].isProcessed /\ docs[d].parsedContent = ProcessingFailed
C13_Step ==
  \A d \in DOMAIN docs \cap DOMAIN docs' :
    C13_Failed(d) =>
      /\ docs'[d].isProcessed = docs[d].isProcessed
      /\ docs'[d].parsedContent = docs[d].parsedContent
C13_FailedIsTerminal == [][C13_Step]_vars

\* C14: when a call of analyzeDocument throws after the extraction has
\* succeeded, the failure is swallowed: the failing step changes no
\* document, the run ends there and never executes markProcessingFailed, and
\* the document, unless another run or a deletion touches it, keeps
\* isProcessed true and the extractor output and has no summary,
\* classification or keywords.
C14_Analyzing == {"analyzeDocument", "saveAnalysis", "updateDocumentAnalysis"}
C14_Kept ==
  \A p \in DOMAIN procs :
    LET d == procs[p].doc
    IN (procs[p].error = AnalysisFailed /\ Exists(docs, d) /\ Started(d) = 1) =>
         /\ docs[d].isProcessed
         /\ docs[d].parsedContent = procs[p].content
         /\ docs[d].parsedContent \in {PdfContent, DocxContent}
         /\ docs[d].summary = None
         /\ docs[d].classification = None
         /\ docs[d].keywords = None
C14_Step ==
  \A p \in DOMAIN procs :
    /\ (procs[p].error # AnalysisFailed /\ procs'[p].error = AnalysisFailed) =>
         /\ procs[p].pc \in C14_Analyzing
         /\ procs'[p].pc = "done"
         /\ docs' = docs
    /\ procs[p].error = AnalysisFailed => procs'[p] = procs[p]
    /\ procs[p].pc \in C14_Analyzing => procs'[p].pc # "markProcessingFailed"
C14_AnalysisFailureSwallowed == [](C14_Kept) /\ [][C14_Step]_vars

\* the only run for a document failed after it had saved two of the four
\* analysis rows
C14_Witness ==
  \E p \in DOMAIN procs :
    /\ procs[p].error = AnalysisFailed
    /\ procs[p].i = 3
    /\ Exists(docs, procs[p].doc)
    /\ Started(procs[p].doc) = 1
    /\ Cardinality({a \in analysis : a.documentId = procs[p].doc}) = 2

\* C15: saveDocument by a signed-in user inserts exactly one document row,
\* owned by the caller, with isProcessed false, empty parsed content and no
\* summary, classification or keywords, and in the same step schedules one
\* processDocument job for the new id; every document row has a job that is
\* pending or has been started.
C15_Triggered ==
  \A d \in DOMAIN docs : d \in scheduled \/ Started(d) >= 1
C15_Created ==
  DOMAIN docs' \ DOMAIN docs # {} =>
    /\ DOMAIN docs' = DOMAIN docs \cup {nextDocId}
    /\ nextDocId \notin DOMAIN docs
    /\ \A d \in DOMAIN docs : docs'[d] = docs[d]
    /\ docs'[nextDocId].userId \in Users
    /\ ~docs'[nextDocId].isProcessed
    /\ docs'[nextDocId].parsedContent = ""
    /\ docs'[nextDocId].summary = None
    /\ docs'[nextDocId].classification = None
    /\ docs'[nextDocId].keywords = None
    /\ nextDocId \notin scheduled
    /\ scheduled' = scheduled \cup {nextDocId}
    /\ Started(nextDocId) = 0
    /\ UNCHANGED <<analysis, procs>>
C15_Owned ==
  \A c \in Users, a \in SaveArgs :
    saveDocument(c, a) =>
      /\ DOMAIN docs' \ DOMAIN docs = {nextDocId}
      /\ docs'[nextDocId].userId = c
      /\ docs'[nextDocId].fileName = a.fileName
      /\ docs'[nextDocId].fileType = a.fileType
      /\ docs'[nextDocId].fileSize = a.fileSize
      /\ docs'[nextDocId].storageId = a.storageId
C15_SaveCreatesAndSchedules == [](C15_Triggered) /\ [][C15_Created /\ C15_Owned]_vars

\* one document is being processed and a second one has just been saved: its
\* job is pending and no run has started for it
C15_Witness ==
  \E d \in DOMAIN docs, e \in DOMAIN docs :
    /\ d \notin scheduled /\ Started(d) = 1
    /\ e \in scheduled /\ Started(e) = 0
    /\ docs[e].parsedContent = "" /\ ~docs[e].isProcessed

\* C16: each of the nine public functions, called without a signed-in user,
\* fails with "Authentication required" and has no other effect: no row or
\* blob is created, changed or deleted, no job is scheduled, and the caller
\* gets neither an upload URL nor data.
C16_Functions ==
  {"generateUploadUrl", "saveDocument", "getUserDocuments", "getDocument",
   "searchDocuments", "deleteDocument", "getDocumentAnalysis", "chatWithDocument",
   "compareDocuments"}
C16_Refused ==
  (lastCall.op \in C16_Functions /\ lastCall.caller = NoUser) =>
    /\ ~lastCall.ok
    /\ lastCall.result = AuthError
C16_Step ==
  (lastCall'.op \in C16_Functions /\ lastCall'.caller = NoUser) =>
    UNCHANGED <<db, procs, compare>>
C16_AuthRequired == [](C16_Refused) /\ [][C16_Step]_vars

\* an anonymous client has just called getUserDocuments while documents and
\* blobs exist
C16_Witness ==
  /\ lastCall.op = "getUserDocuments"
  /\ lastCall.caller = NoUser
  /\ DOMAIN docs # {}
  /\ storage # {}

\* C17: getUserDocuments returns only documents of the caller, latest upload
\* first, and never more than 50 of them, whatever the limit argument; with
\* no limit it returns the 50 latest.
C17_Owned == {d \in DOMAIN docs : docs[d].userId = lastCall.caller}
C17_Page ==
  (lastCall.op = "getUserDocuments" /\ lastCall.ok) =>
    LET page == lastCall.result
    IN /\ \A i \in 1..Len(page) :
            /\ page[i].id \in C17_Owned
            /\ page[i].doc = docs[page[i].id]
       /\ \A i \in 1..Len(page), j \in 1..Len(page) :
            i < j => page[i].doc.uploadTime > page[j].doc.uploadTime
       /\ \A i \in 1..Len(page), d \in C17_Owned :
            docs[d].uploadTime > page[i].doc.uploadTime =>
              \E j \in 1..i : page[j].id = d
       /\ Len(page) <= DefaultPageSize
       /\ lastCall.args[1] = None =>
            Len(page) = (IF Cardinality(C17_Owned) < DefaultPageSize
                           THEN Cardinality(C17_Owned) ELSE DefaultPageSize)

\* C18: searchDocuments, by content or by file name, returns at most 20
\* documents; each of them is a document of the caller and, when a file type
\* is given, has that file type; a document of another user is never
\* returned.
C18_Results ==
  (lastCall.op = "searchDocuments" /\ lastCall.ok) =>
    LET args == lastCall.args[1]
    IN /\ Cardinality(lastCall.result) <= 20
       /\ \A r \in lastCall.result :
            /\ Exists(docs, r.id)
            /\ r.doc = docs[r.id]
            /\ r.doc.userId = lastCall.caller
            /\ (args.fileType # None /\ args.fileType # Some("")) =>
                 r.doc.fileType = args.fileType[1]
            /\ Matches(IF args.searchType = "content" THEN r.doc.parsedContent
                                                     ELSE r.doc.fileName,
                       args.query)

\* a search by file name returned 20 of the more than 20 matching documents
\* of the caller, and a document of another user matches the query too
C18_Witness ==
  /\ lastCall.op = "searchDocuments"
  /\ lastCall.ok
  /\ lastCall.args[1].searchType = "filename"
  /\ Cardinality(lastCall.result) = 20
  /\ Cardinality({d \in DOMAIN docs :
                    /\ docs[d].userId = lastCall.caller
                    /\ Matches(docs[d].fileName, lastCall.args[1].query)}) > 20
  /\ \E d \in DOMAIN docs :
       /\ docs[d].userId # lastCall.caller
       /\ Matches(docs[d].fileName, lastCall.args[1].query)

\* C19: analysis rows are append-only: a step never changes a field of an
\* existing row; a run for a document that has rows already adds rows and
\* leaves the old ones as they are; a row disappears only in the step in
\* which deleteDocument removes the document it belongs to.
C19_Step ==
  /\ \A a \in analysis :
       \/ a \in analysis'
       \/ /\ Exists(docs, a.documentId)
          /\ ~Exists(docs', a.documentId)
          /\ \A b \in analysis' : b.id # a.id
  /\ \A b \in analysis' \ analysis : \A a \in analysis : a.id # b.id
C19_AppendOnly == [][C19_Step]_vars

\* a second run for a document has added a summary row next to the one of
\* the first run
C19_Witness ==
  \E a \in analysis, b \in analysis :
    /\ a.id[1] # b.id[1]
    /\ a.documentId = b.documentId
    /\ a.analysisType = b.analysisType
    /\ Exists(docs, a.documentId)

\* C20: when the scheduler delivers every job and every started run keeps
\* taking its steps, a document does not keep empty parsed content forever:
\* it is deleted, or it comes to have isProcessed true with the extractor
\* output, or isProcessed false with "Processing failed".
C20_Settled(d) ==
  \/ docs[d].isProcessed /\ docs[d].parsedContent \in {PdfContent, DocxContent}
  \/ ~docs[d].isProcessed /\ docs[d].parsedContent = ProcessingFailed
C20_EventuallySettled ==
  \A d \in DocIds :
    Exists(docs, d) ~> (~Exists(docs, d) \/ C20_Settled(d))

\* two runs for one document: the first has marked it failed, the second
\* has extracted it since
C20_Witness ==
  \E d \in DOMAIN docs :
    /\ Started(d) = 2
    /\ C20_Settled(d)
    /\ docs[d].isProcessed
    /\ \E p \in DOMAIN procs :
         procs[p].doc = d /\ procs[p].pc = "done" /\ procs[p].error # ""

\* C21: a processDocument run whose extraction failed (no URL for the blob,
\* or the fetch or the parser threw) calls no analysis, inserts no analysis
\* row and writes no summary, classification or keywords: after the failure
\* its only write is markProcessingFailed on its document.
C21_ExtractionErrors == {FileNotFound, FetchFailed, UnsupportedFileType}
C21_ExtractFailed(p) == procs[p].error \in C21_ExtractionErrors
C21_NoAnalysis ==
  \A p \in DOMAIN procs :
    C21_ExtractFailed(p) =>
      /\ procs[p].pc \in {"markProcessingFailed", "done", "crashed"}
      /\ procs[p].i = 0
      /\ procs[p].content = ""
      /\ \A a \in analysis : a.id[1] # p
C21_Step ==
  \A p \in DOMAIN procs :
    /\ (~C21_ExtractFailed(p) /\ procs'[p].error \in C21_ExtractionErrors) =>
         /\ procs[p].pc = "extract"
         /\ UNCHANGED db
    /\ (C21_ExtractFailed(p) /\ procs'[p] # procs[p]) =>
         LET d == procs[p].doc
         IN /\ procs[p].pc = "markProcessingFailed"
            /\ UNCHANGED <<nextDocId, storage, nextStorageId, analysis, scheduled>>
            /\ IF Exists(docs, d)
                 THEN /\ procs'[p].pc = "done"
                      /\ docs' = [docs EXCEPT ![d].parsedContent = ProcessingFailed,
                                              ![d].isProcessed = FALSE]
                 ELSE /\ procs'[p].pc = "crashed"
                      /\ docs' = docs
C21_NoAnalysisAfterFailedExtraction == [](C21_NoAnalysis) /\ [][C21_Step]_vars

\* a run found no blob for its document, another run of the same document
\* had saved analysis rows, and the failed run has marked the document
C21_Witness ==
  \E p \in DOMAIN procs :
    /\ procs[p].error = FileNotFound
    /\ procs[p].pc = "done"
    /\ Exists(docs, procs[p].doc)
    /\ docs[procs[p].doc].parsedContent = ProcessingFailed
    /\ \E a \in analysis : a.documentId = procs[p].doc

\* the position of run p in processDocument and in its call of
\* analyzeDocument
C22_Position(run) ==
  CASE run.pc = "extract" -> 0
    [] run.pc = "updateParsedContent" -> 1
    [] run.pc = "analyzeDocument" -> 2
    [] run.pc = "saveAnalysis" -> 2 + run.i
    [] run.pc = "updateDocumentAnalysis" -> 7
    [] run.pc = "markProcessingFailed" -> 8
    [] OTHER -> 9
\* the rows of the documents table other than d are left alone
C22_OnlyDocument(d) ==
  /\ DOMAIN docs' = DOMAIN docs
  /\ \A e \in DOMAIN docs : e # d => docs'[e] = docs[e]
\* the first write: extractor output and isProcessed = true
C22_First(p) ==
  LET d == procs[p].doc
  IN /\ procs[p].content \in {PdfContent, DocxContent}
     /\ IF Exists(docs, d)
          THEN /\ procs'[p].pc = "analyzeDocument"
               /\ docs'[d] = [docs[d] EXCEPT !.parsedContent = procs[p].content,
                                             !.isProcessed = TRUE]
          ELSE /\ procs'[p].pc = "markProcessingFailed"
               /\ docs' = docs
\* the second write: summary, classification and keywords, after the four
\* analysis rows of this run
C22_Second(p) ==
  LET d == procs[p].doc
  IN /\ procs[p].i = 5
     /\ procs'[p].pc = "done"
     /\ IF Exists(docs, d)
          THEN /\ \A k \in 1..4 :
                    \E a \in analysis :
                      /\ a.id = <<p, k>>
                      /\ a.documentId = d
                      /\ a.analysisType = AnalysisTypes[k]
               /\ docs'[d] =
                    [docs[d] EXCEPT
                       !.summary = Some(generateMockResponse("summary", "")),
                       !.classification = Some(generateMockResponse("classification", "")),
                       !.keywords = Some(C11_Keywords)]
          ELSE docs' = docs
\* the write of the catch block
C22_Failure(p) ==
  LET d == procs[p].doc
  IN IF Exists(docs, d)
       THEN /\ procs'[p].pc = "done"
            /\ docs'[d] = [docs[d] EXCEPT !.parsedContent = ProcessingFailed,
                                          !.isProcessed = FALSE]
       ELSE /\ procs'[p].pc = "crashed"
            /\ docs' = docs

\* C22 as stated: a run whose extraction failed writes the document exactly
\* once, setting the failure sentinel and clearing the flag.
C22_FailureWritten ==
  \A p \in DOMAIN procs :
    (C21_ExtractFailed(p) /\ procs[p].pc = "markProcessingFailed"
       /\ procs'[p] # procs[p])
      => /\ Exists(docs', procs[p].doc)
         /\ docs'[procs[p].doc].parsedContent = ProcessingFailed
         /\ ~docs'[procs[p].doc].isProcessed
C22_WritesAsStated == [][C22_FailureWritten]_vars

\* C22 amended: a run moves forward only, so that it issues each of its
\* writes at most once and in the order updateParsedContent,
\* updateDocumentAnalysis; a step of a run changes no document other than
\* its own, and changes its own only by one of the three writes.  While the
\* document exists the success path commits two writes, the extractor output
\* with isProcessed = true and then, after the four analysis rows of the run,
\* summary, classification and keywords; a run whose extraction failed
\* commits one, the failure sentinel with isProcessed = false.  A write
\* issued after the document was deleted commits nothing.
C22_Step ==
  \A p \in DOMAIN procs :
    procs'[p] # procs[p] =>
      /\ C22_Position(procs'[p]) > C22_Position(procs[p])
      /\ C22_OnlyDocument(procs[p].doc)
      /\ CASE procs[p].pc = "updateParsedContent" -> C22_First(p)
           [] procs[p].pc = "updateDocumentAnalysis" -> C22_Second(p)
           [] procs[p].pc = "markProcessingFailed" -> C22_Failure(p)
           [] OTHER -> docs' = docs
C22_WritesInOrder == [][C22_Step]_vars

\* a run has committed both writes on a document that an earlier run had
\* marked failed
C22_Witness ==
  \E p \in DOMAIN procs, q \in DOMAIN procs :
    /\ p # q
    /\ procs[p].doc = procs[q].doc
    /\ procs[q].pc = "done" /\ C21_ExtractFailed(q)
    /\ procs[p].pc = "done" /\ procs[p].error = "" /\ procs[p].i = 5
    /\ Exists(docs, procs[p].doc)
    /\ docs[procs[p].doc].isProcessed
    /\ docs[procs[p].doc].summary # None

\* C23: an analysis row is inserted only by a processDocument run, in its
\* call of analyzeDocument, after the run has extracted the content and
\* committed updateParsedContent and after its four analyzeWithAI calls
\* returned; saveDocument, the upload form and deleteDocument insert none;
\* the kind of every row is one of summary, classification, keywords,
\* insights.
C23_Row(p, k) ==
  [id |-> <<p, k>>, documentId |-> procs[p].doc, userId |-> procs[p].userId,
   analysisType |-> AnalysisTypes[k],
   result |-> generateMockResponse(AnalysisTypes[k], ""), confidence |-> Confidence]
C23_InsertedByRun ==
  \A a \in analysis :
    /\ a.analysisType \in {"summary", "classification", "keywords", "insights"}
    /\ \E p \in DOMAIN procs, k \in 1..4 :
         /\ a = C23_Row(p, k)
         /\ procs[p].i > k
         /\ procs[p].pc \in {"saveAnalysis", "updateDocumentAnalysis", "done"}
         /\ procs[p].error = ""
         /\ procs[p].content \in {PdfContent, DocxContent}
C23_Step ==
  /\ \A p \in DOMAIN procs :
       (procs[p].pc # "analyzeDocument" /\ procs'[p].pc = "analyzeDocument") =>
         /\ procs[p].pc = "updateParsedContent"
         /\ Exists(docs', procs[p].doc)
         /\ docs'[procs[p].doc].isProcessed
         /\ docs'[procs[p].doc].parsedContent = procs[p].content
  /\ analysis' \ analysis # {} =>
       \E p \in DOMAIN procs :
         /\ procs[p].pc = "saveAnalysis"
         /\ procs[p].i \in 1..4
         /\ analysis' = analysis \cup {C23_Row(p, procs[p].i)}
         /\ procs'[p].i = procs[p].i + 1
         /\ UNCHANGED <<docs, nextDocId, storage, nextStorageId, scheduled>>
C23_OnlyOrchestratorInserts == [](C23_InsertedByRun) /\ [][C23_Step]_vars

\* a run has inserted two of its four rows while a second document, just
\* saved, has none
C23_Witness ==
  \E p \in DOMAIN procs, e \in DOMAIN docs :
    /\ procs[p].pc = "saveAnalysis"
    /\ procs[p].i = 3
    /\ Cardinality({a \in analysis : a.id[1] = p}) = 2
    /\ e # procs[p].doc
    /\ e \in scheduled
    /\ \A a \in analysis : a.documentId # e

\* C24: every analysis row belongs to a document that exists: no row is
\* left behind by deleteDocument and none is inserted for a document after
\* deleteDocument removed it, however deleteDocument interleaves with a
\* running processDocument / analyzeDocument.
C24_NoOrphans == \A a \in analysis : Exists(docs, a.documentId)

\* C25: a document whose summary is present has isProcessed true and parsed
\* content other than "Processing failed", also when the job is delivered
\* more than once and a later run fails at extraction.
C25_AnalysedIsProcessed ==
  \A d \in DOMAIN docs :
    docs[d].summary # None =>
      docs[d].isProcessed /\ docs[d].parsedContent # ProcessingFailed

\* C26: a document whose summary, classification and keywords are present
\* has at least one analysis row of each of the kinds summary,
\* classification, keywords and insights; its summary is the result of one
\* of its summary rows, its classification the result of one of its
\* classification rows, and its keywords are the trimmed terms of the
\* comma-separated result of one of its keywords rows.
C26_FieldsFromRows ==
  \A d \in DOMAIN docs :
    docs[d].summary # None =>
      /\ \A k \in {"summary", "classification", "keywords", "insights"} :
           AnalysisOf(d, k) # {}
      /\ \E a \in AnalysisOf(d, "summary") : docs[d].summary = Some(a.result)
      /\ \E a \in AnalysisOf(d, "classification") :
           docs[d].classification = Some(a.result)
      /\ \E a \in AnalysisOf(d, "keywords") :
           /\ docs[d].keywords = Some(keywordsOf(a.result))
           /\ Len(split(a.result)) = Len(docs[d].keywords[1])
           /\ \A i \in 1..Len(docs[d].keywords[1]) :
                /\ docs[d].keywords[1][i] = trim(split(a.result)[i])
                /\ " " \notin {docs[d].keywords[1][i][j] :
                                 j \in 1..Len(docs[d].keywords[1][i])}

\* a document carries the analysis of a first run while a second run has
\* inserted two rows more
C26_Witness ==
  \E d \in DOMAIN docs :
    /\ docs[d].summary # None
    /\ Cardinality({a \in analysis : a.documentId = d}) = 6

\* C27: getDocumentAnalysis(D) called by user U returns exactly the analysis
\* rows of D when U owns D, and the empty list, neither an error nor a row,
\* when D belongs to another user or does not exist; the userId of every
\* analysis row is the userId of the document it refers to.
C27_OwnRowsOnly ==
  /\ \A a \in analysis :
       Exists(docs, a.documentId) => a.userId = docs[a.documentId].userId
  /\ \A u \in Users, d \in DocIds :
       getDocumentAnalysisHandler(analysis, u, d) =
         Ok(IF Exists(docs, d) /\ docs[d].userId = u
              THEN {a \in analysis : a.documentId = d}
              ELSE {})

\* C28: chatWithDocument and compareDocuments are read-only: whether they
\* return a result or an error, no document row, analysis row, blob or
\* scheduled job changes; and what they return does not depend on the state
\* of the documents: they answer for Uploaded, Ready and Failed documents
\* alike.
C28_ReadOnly ==
  lastCall'.op \in {"chatWithDocument", "compareDocuments", NoCall.op}
    => UNCHANGED <<docs, nextDocId, storage, nextStorageId, analysis, scheduled, procs>>
C28_Put(doc, state) == IF doc = None THEN None ELSE Some(InState(doc[1], state))
C28_ChatAlike ==
  lastCall'.op = "chatWithDocument" =>
    LET c == lastCall'.caller
        d == lastCall'.args[1]
    IN /\ lastCall'.ok = (c # NoUser /\ Exists(docs, d) /\ docs[d].userId = c)
       /\ \A state \in DocStates :
            LET table == IF Exists(docs, d)
                           THEN [docs EXCEPT ![d] = InState(docs[d], state)]
                           ELSE docs
                r == chatWithDocumentHandler(table, c, d, CHOOSE q \in Questions : TRUE)
            IN lastCall'.ok = r.ok /\ lastCall'.result = r.result
C28_CompareAlike ==
  (compare # NoCompare /\ compare' = NoCompare) =>
    LET other == getDocumentForProcessing(docs, compare.ids[3 - compare.first])
        doc1 == IF compare.first = 1 THEN compare.doc ELSE other
        doc2 == IF compare.first = 1 THEN other ELSE compare.doc
    IN \A state1 \in DocStates, state2 \in DocStates :
         LET r == compareDocumentsHandler(compare.caller, compare.ids[1], compare.ids[2],
                                          C28_Put(doc1, state1), C28_Put(doc2, state2))
         IN lastCall'.ok = r.ok /\ lastCall'.result = r.result
C28_ChatAndCompareReadOnly ==
  [][C28_ReadOnly /\ C28_ChatAlike /\ C28_CompareAlike]_vars

\* a comparison of a Ready document, which has analysis rows, with a Failed
\* one has returned a result
C28_Witness ==
  /\ lastCall.op = "compareDocuments"
  /\ lastCall.ok
  /\ \A i \in 1..2 : Exists(docs, lastCall.args[i])
  /\ docs[lastCall.args[1]].isProcessed
  /\ \E a \in analysis : a.documentId = lastCall.args[1]
  /\ docs[lastCall.args[2]].parsedContent = ProcessingFailed
  /\ ~docs[lastCall.args[2]].isProcessed

\* C29: the message list of the chat panel is a sequence of pairs, a
\* question of the user followed by the reply to it, all about the document
\* that is selected: every assistant message, answer or error text, comes
\* directly after the user message it replies to; at most one question is
\* in flight; and no reply to a question is appended once the chat was
\* cleared or another document was selected, however send, Clear Chat,
\* the selection of a document and the arrival of a response interleave.
C29_OneInFlight ==
  /\ Cardinality(DocumentChat.calls) <= 1
  /\ DocumentChat.isLoading = (DocumentChat.calls # {})
C29_Pairs ==
  LET messages == DocumentChat.messages
  IN /\ \A i \in DOMAIN messages :
          /\ messages[i].type = (IF i % 2 = 1 THEN "user" ELSE "assistant")
          /\ messages[i].type = "assistant" =>
               messages[i - 1].question = messages[i].question
          /\ DocumentChat.selectedDocumentId = Some(messages[i].documentId)
     /\ C29_OneInFlight

\* C30: the comparison panel calls the compare action only with two ids
\* that are not null, differ, and both belong to the processed documents
\* the panel shows (isProcessed true, not deleted); isComparing is true
\* exactly while one call is in flight and is false again when the call has
\* returned or thrown.
C30_Comparing ==
  /\ Cardinality(DocumentComparison.calls) <= 1
  /\ DocumentComparison.isComparing = (DocumentComparison.calls # {})
C30_Invoked ==
  \A call \in DocumentComparison'.calls \ DocumentComparison.calls :
    /\ call.documentId1 # call.documentId2
    /\ call.documentId1 \in processedDocuments
    /\ call.documentId2 \in processedDocuments
C30_CompareShownDocuments == [](C30_Comparing) /\ [][C30_Invoked]_vars

====
